---- MODULE Spec2Model ----
(***************************************************************************)
(* Model of the overlay/merge media pipeline of ffmpeg-suite.              *)
(*                                                                         *)
(* State: one record of local variables per merge request (the frame of    *)
(* MergeService.process_merge_request and of apply_overlays_to_clips),     *)
(* the download tasks that asyncio.gather runs, the rendering-engine       *)
(* subprocess of the request, the temp directory (a set of paths), and the *)
(* single asyncio event loop (which request's task occupies it).           *)
(*                                                                         *)
(* Steps are cut where the program really yields or talks to another       *)
(* process: the await of gather, the completion of a download task, the    *)
(* start and the exit of an engine subprocess.  Everything a coroutine     *)
(* does between two such points is one action.                             *)
(*                                                                         *)
(* Further specifications share the module: SpecRembg, the /rembg         *)
(* handlers behind REMBG_SEMAPHORE; SpecUnit, single calls of the          *)
(* FFmpegService functions (trim_video, merge_videos, _apply_overrides,    *)
(* the layout part of add_text_overlay) and of the API-key middleware on   *)
(* inputs from bounded sets; SpecHandlers, the temp files of one request   *)
(* inside an endpoint handler; SpecSessions, the worker threads inside     *)
(* RembgService.get_session; SpecDb, the users of                          *)
(* DatabaseService.get_connection.                                         *)
(***************************************************************************)
EXTENDS Naturals, Integers, Sequences, FiniteSets, TLC

\* ------------------------------------------------------------ bounds ----

\* Config.MAX_MERGE_CLIPS: the configured maximum batch size.
MAX_MERGE_CLIPS == 3

\* merge_service.py:173  len(config['text']) > 500
MAX_TEXT_LEN == 500

Requests == {"A", "B"}

NoneReq == "none"

\* ------------------------------------------------------------ inputs ----

\* One job of a batch.  url = 0 is the empty URL; the text is modelled by an
\* identity (which job wrote it) and its length; overrides are absent or the
\* override set of job `job`.
NoOverrides == [present |-> FALSE, job |-> 0]

JobKinds == {"ok", "max_text", "with_overrides", "no_url", "no_text", "long_text"}

TextLenOf(kind) ==
    CASE kind = "no_text"   -> 0
      [] kind = "long_text" -> MAX_TEXT_LEN + 1
      [] kind = "max_text"  -> MAX_TEXT_LEN
      [] OTHER              -> 1

Job(i, kind) ==
    [url       |-> IF kind = "no_url" THEN 0 ELSE i,
     text      |-> [id |-> i, len |-> TextLenOf(kind)],
     template  |-> IF kind = "with_overrides" THEN "custom" ELSE "default",
     overrides |-> IF kind = "with_overrides"
                   THEN [present |-> TRUE, job |-> i] ELSE NoOverrides]

\* Batches of 0 .. MAX_MERGE_CLIPS + 1 jobs in which at most one job departs
\* from the plain valid job.
Batches ==
    UNION { { [i \in 1..n |-> Job(i, IF i = k THEN kind ELSE "ok")] :
                k \in 0..n, kind \in JobKinds } :
            n \in 0..(MAX_MERGE_CLIPS + 1) }

\* The batches of the two-request specification: plain valid two-clip jobs.
PlainBatches == { [i \in 1..2 |-> Job(i, "ok")] }

\* ------------------------------------------------------------- paths ----

\* Every artifact name carries a uuid4, so paths are unique per request, kind
\* and position.
Path(r, kind, n) == [req |-> r, kind |-> kind, n |-> n]

SrcPath(r, i) == Path(r, "src", i)
OvlPath(r, i) == Path(r, "ovl", i)
TxtPath(r, i) == Path(r, "txt", i)
OutPath(r)    == Path(r, "out", 0)

VARIABLES
    pc,               \* position of the request's coroutine
    entry,            \* how process_merge_request was reached
    clip_configs,     \* argument of process_merge_request
    downloads,        \* state of each download task of the gather
    completed,        \* order in which the download tasks completed
    downloaded_clips, \* result of download_clips: (path, url fetched)
    downloaded_paths, \* local of process_merge_request
    overlayed_paths,  \* local of process_merge_request
    apply_paths,      \* overlayed_paths, the local of apply_overlays_to_clips
    idx,              \* loop index of apply_overlays_to_clips (1-based)
    engine,           \* the running rendering-engine subprocess
    files,            \* the temp directory
    overlay_calls,    \* log of the add_text_overlay invocations
    merge_inputs,     \* input_paths handed to the engine by merge_videos
    raised,           \* exception that left process_merge_request
    message,          \* what the message of that exception names
    stage,            \* stage in which it was raised
    response,         \* HTTP status the /overlay/merge handler answered
    created,          \* files the request ever created
    removed,          \* files the request ever removed
    loop_holder,      \* request whose task occupies the event loop
    engine_log,       \* outcome of every engine run of the request
    merge_request,    \* first-clip trim options of the MergeRequest body
    trim_calls,       \* log of the trim_video invocations of the pipeline
    gate,             \* /rembg: REMBG_SEMAPHORE and the handlers behind it
    u,                \* a single call of a service function under study
    handler,          \* one request inside an endpoint handler of main.py
    rembg_service,    \* RembgService.sessions and the threads in get_session
    database          \* the connection pool and the users of get_connection

vars == <<pc, entry, clip_configs, downloads, completed, downloaded_clips,
          downloaded_paths, overlayed_paths, apply_paths, idx, engine, files,
          overlay_calls, merge_inputs, raised, message, stage, response, created,
          removed, loop_holder, engine_log, merge_request, trim_calls, gate, u,
          handler, rembg_service, database>>

\* The variables of the layer around the pipeline.
boundary_vars == <<handler, rembg_service, database>>

NoEngine == [kind |-> "none", clip |-> 0]

Range(seq) == { seq[i] : i \in DOMAIN seq }

FilesOf(fs, r) == { f \in fs : f.req = r }

\* ------------------------------------------------- merge_service.py ----

\* validate_merge_request: the checks in the order of the code; "ok" when
\* none raises.
validate_merge_request_no_length_check(cfgs) ==
    LET num_clips == Len(cfgs) IN
    IF num_clips < 2 THEN "ValueError"
    ELSE IF num_clips > MAX_MERGE_CLIPS THEN "ValueError"
    ELSE IF \E i \in 1..num_clips : cfgs[i].url = 0 \/ cfgs[i].text.len = 0
         THEN "ValueError"
         ELSE "ok"

validate_merge_request(cfgs) ==
    LET num_clips == Len(cfgs) IN
    IF num_clips < 2 THEN "ValueError"
    ELSE IF num_clips > MAX_MERGE_CLIPS THEN "ValueError"
    ELSE IF \E i \in 1..num_clips :
              \/ cfgs[i].url = 0
              \/ cfgs[i].text.len = 0
              \/ cfgs[i].text.len > MAX_TEXT_LEN
         THEN "ValueError"
         ELSE "ok"

\* What the message of the exception that leaves process_merge_request
\* names: the stage, and a clip index (0: none).  validate_merge_request
\* prefixes "Clip {i+1}" for a per-clip check; download_clips wraps the
\* exception of gather as "Clip download failed: ...", download_from_url
\* having been given the URL only; apply_overlays_to_clips and merge_clips
\* wrap the message of the engine call, which carries no index.
NoMessage == [stage |-> "none", clip |-> 0]

ErrorMessage(stg, cfgs) ==
    IF stg = "validation" /\ Len(cfgs) >= 2 /\ Len(cfgs) <= MAX_MERGE_CLIPS
    THEN [stage |-> stg,
          clip |-> CHOOSE i \in DOMAIN cfgs :
                      /\ cfgs[i].url = 0 \/ cfgs[i].text.len = 0
                            \/ cfgs[i].text.len > MAX_TEXT_LEN
                      /\ \A j \in 1..(i - 1) :
                            ~(cfgs[j].url = 0 \/ cfgs[j].text.len = 0
                                \/ cfgs[j].text.len > MAX_TEXT_LEN)]
    ELSE [stage |-> stg, clip |-> 0]

\* cleanup_file: os.remove when os.path.exists; cleanup_files: each in turn.
\* os.remove of a file the request itself wrote into the temp directory is
\* taken to succeed (the code logs and swallows a failing one).
cleanup_file(fs, path) == IF path \in fs THEN fs \ {path} ELSE fs

RECURSIVE cleanup_files(_, _)
cleanup_files(fs, paths) ==
    IF paths = <<>> THEN fs
    ELSE cleanup_files(cleanup_file(fs, Head(paths)), Tail(paths))

\* asyncio.gather(*download_tasks) returns once every task has a result and
\* raises as soon as one task has raised (the others keep running).
GatherReturnsDespiteFailure(dl) == \A i \in DOMAIN dl : dl[i] # "running"

GatherReturns(dl) == \A i \in DOMAIN dl : dl[i] = "ok"

GatherRaises(dl) == \E i \in DOMAIN dl : dl[i] = "failed"

\* The task of position i fetched urls[i] into SrcPath(r, i); gather lists the
\* results by position of the awaitable, not by completion.
GatherResultsByCompletion(r, urls, order) ==
    [i \in DOMAIN urls |-> [path |-> SrcPath(r, order[i]), url |-> urls[order[i]]]]

GatherResults(r, urls, order) ==
    [i \in DOMAIN urls |-> [path |-> SrcPath(r, i), url |-> urls[i]]]

\* TextOverrideOptions(**config['overrides']) when config.get('overrides').
ParseOverrides(ov) == IF ov.present THEN ov ELSE NoOverrides

\* except-block of apply_overlays_to_clips: the completed overlays.
ApplyOverlaysExceptNoCleanup(fs, paths) == fs

ApplyOverlaysExcept(fs, paths) == cleanup_files(fs, paths)

\* except-block of process_merge_request.
ProcessExcept(fs, dpaths, opaths) == cleanup_files(cleanup_files(fs, dpaths), opaths)

\* Step 4: cleanup of the downloaded originals after the overlay loop.
Step4CleanupSkipped(fs, dpaths) == fs

Step4Cleanup(fs, dpaths) == cleanup_files(fs, dpaths)

\* Step 6: cleanup of the overlayed clips after the merge.
Step6CleanupSkipped(fs, opaths) == fs

Step6Cleanup(fs, opaths) == cleanup_files(fs, opaths)

\* add_text_overlay / merge_videos: the run succeeded when the engine exited
\* with status 0 within the timeout and os.path.exists(output_path).
EngineSuccessOnExitStatus(exit, wrote) == exit = "zero"

EngineSuccess(exit, wrote) == exit = "zero" /\ wrote

\* What one subprocess.run of the engine came to: its exit and whether the
\* output file exists afterwards.
EngineRun(kind, clip, exit, wrote) ==
    [kind |-> kind, clip |-> clip, exit |-> exit, wrote |-> wrote]

\* ------------------------------------------ media probe and layout ----

\* ffmpeg_service.py:18
BASE_RESOLUTION_WIDTH == 1080

\* How the run of the inspector (ffprobe) ended.
InspectorOutcomes == {"ok", "nonzero", "timeout", "missing_binary", "unparsable"}

\* get_media_info: the parsed output when the inspector exited with 0 and
\* its output parses; {} for a non-zero exit; every exception (timeout,
\* missing binary, json error) is caught and gives {}.
get_media_info_uncaught(outcome, parsed) ==
    [raises |-> outcome \in {"timeout", "missing_binary", "unparsable"},
     info |-> IF outcome = "ok" THEN parsed ELSE [format |-> FALSE,
                has_duration |-> FALSE, duration |-> 0, width |-> 0]]

get_media_info(outcome, parsed) ==
    [raises |-> FALSE,
     info |-> IF outcome = "ok" THEN parsed ELSE [format |-> FALSE,
                has_duration |-> FALSE, duration |-> 0, width |-> 0]]

\* _get_video_width: the width of the first video stream with one; 0: None.
_get_video_width(media_info) == media_info.width

\* A text is a sequence of characters.
Chars(c, n) == [i \in 1..n |-> c]

\* str.split(sep): the pieces between the separators, empty pieces included.
RECURSIVE SplitOn(_, _)
SplitOn(text, sep) ==
    IF \A i \in DOMAIN text : text[i] # sep THEN <<text>>
    ELSE LET k == CHOOSE i \in DOMAIN text :
                     text[i] = sep /\ \A j \in 1..(i - 1) : text[j] # sep
         IN <<SubSeq(text, 1, k - 1)>> \o SplitOn(SubSeq(text, k + 1, Len(text)), sep)

\* sep.join(pieces)
RECURSIVE JoinWith(_, _)
JoinWith(pieces, sep) ==
    IF pieces = <<>> THEN <<>>
    ELSE IF Len(pieces) = 1 THEN pieces[1]
    ELSE pieces[1] \o <<sep>> \o JoinWith(Tail(pieces), sep)

\* int(max_width_px / avg_char_width), at least 10:
\* (img_width * percent / 100) / (font_size * 0.55).
max_chars_per_line(font_size, img_width, max_width_percent) ==
    LET n == (img_width * max_width_percent) \div (55 * font_size)
    IN IF n < 10 THEN 10 ELSE n

\* The loop over the words of one paragraph (lines 515-530).
RECURSIVE PackWordsLateBreak(_, _, _, _)
PackWordsLateBreak(words, current_line, wrapped_lines, max_chars) ==
    IF words = <<>>
    THEN IF current_line # <<>> THEN Append(wrapped_lines, current_line)
         ELSE wrapped_lines
    ELSE LET word == Head(words)
             test_line == current_line \o
                          (IF current_line # <<>> THEN <<" ">> ELSE <<>>) \o word
         IN IF Len(current_line) > max_chars
            THEN PackWordsLateBreak(Tail(words), word,
                                    Append(wrapped_lines, current_line), max_chars)
            ELSE PackWordsLateBreak(Tail(words), test_line, wrapped_lines, max_chars)

RECURSIVE PackWordsDroppingOverflow(_, _, _, _)
PackWordsDroppingOverflow(words, current_line, wrapped_lines, max_chars) ==
    IF words = <<>>
    THEN IF current_line # <<>> THEN Append(wrapped_lines, current_line)
         ELSE wrapped_lines
    ELSE LET word == Head(words)
             test_line == current_line \o
                          (IF current_line # <<>> THEN <<" ">> ELSE <<>>) \o word
         IN IF Len(test_line) > max_chars /\ current_line # <<>>
            THEN PackWordsDroppingOverflow(Tail(words), <<>>,
                                           Append(wrapped_lines, current_line), max_chars)
            ELSE PackWordsDroppingOverflow(Tail(words), test_line, wrapped_lines, max_chars)

RECURSIVE PackWords(_, _, _, _)
PackWords(words, current_line, wrapped_lines, max_chars) ==
    IF words = <<>>
    THEN IF current_line # <<>> THEN Append(wrapped_lines, current_line)
         ELSE wrapped_lines
    ELSE LET word == Head(words)
             test_line == current_line \o
                          (IF current_line # <<>> THEN <<" ">> ELSE <<>>) \o word
         IN IF Len(test_line) > max_chars /\ current_line # <<>>
            THEN PackWords(Tail(words), word, Append(wrapped_lines, current_line), max_chars)
            ELSE PackWords(Tail(words), test_line, wrapped_lines, max_chars)

\* The loop over the paragraphs (lines 506-530).
RECURSIVE WrapParagraphsSkippingBlank(_, _, _)
WrapParagraphsSkippingBlank(paragraphs, wrapped_lines, max_chars) ==
    IF paragraphs = <<>> THEN wrapped_lines
    ELSE LET paragraph == Head(paragraphs) IN
         IF \A i \in DOMAIN paragraph : paragraph[i] = " "
         THEN WrapParagraphsSkippingBlank(Tail(paragraphs), wrapped_lines, max_chars)
         ELSE WrapParagraphsSkippingBlank(Tail(paragraphs),
                             PackWords(SplitOn(paragraph, " "), <<>>, wrapped_lines, max_chars),
                             max_chars)

RECURSIVE WrapParagraphs(_, _, _)
WrapParagraphs(paragraphs, wrapped_lines, max_chars) ==
    IF paragraphs = <<>> THEN wrapped_lines
    ELSE LET paragraph == Head(paragraphs) IN
         IF \A i \in DOMAIN paragraph : paragraph[i] = " "
         THEN WrapParagraphs(Tail(paragraphs), Append(wrapped_lines, <<>>), max_chars)
         ELSE WrapParagraphs(Tail(paragraphs),
                             PackWords(SplitOn(paragraph, " "), <<>>, wrapped_lines, max_chars),
                             max_chars)

\* _wrap_text(text, font_size, font_path, img_width, max_width_percent); the
\* division by avg_char_width raises ZeroDivisionError for font_size 0.
_wrap_text(text, font_size, img_width, max_width_percent) ==
    IF font_size = 0
    THEN [raises |-> TRUE, text |-> text]
    ELSE [raises |-> FALSE,
          text |-> JoinWith(WrapParagraphs(SplitOn(text, "\n"), <<>>,
                               max_chars_per_line(font_size, img_width, max_width_percent)),
                            "\n")]

\* int(style.font_size * (img_width / BASE_RESOLUTION_WIDTH)) when the
\* width is known, style.font_size otherwise.
ScaledFontSize(font_size, img_width) ==
    IF img_width # 0
    THEN (font_size * img_width) \div BASE_RESOLUTION_WIDTH
    ELSE font_size

\* TextOverrideOptions: 0 / "none" stand for a field that is None; present
\* FALSE for overrides = None.  custom_x is no attribute of TextStyle.
NoStyleOverrides ==
    [present |-> FALSE, font_weight |-> 0, font_family |-> "none", font_size |-> 0,
     text_color |-> "none", custom_x |-> 0, max_text_width_percent |-> 0]

\* _apply_overrides(style, overrides): font_weight decides the font path,
\* else font_family does; every other override that is not None and names
\* an attribute of the style is set on the style object, which is returned.
\* received: the object the caller passed, as it is after the call.
OverriddenStyle(style, overrides) ==
    [font_path |->
        IF overrides.font_weight # 0
        THEN IF overrides.font_weight < 450
             THEN "TIKTOK_SANS_MEDIUM" ELSE "TIKTOK_SANS_SEMIBOLD"
        ELSE IF overrides.font_family # "none"
        THEN IF overrides.font_family = "bold"
             THEN "INTER_BOLD" ELSE "INTER_REGULAR"
        ELSE style.font_path,
     font_size |-> IF overrides.font_size # 0
                   THEN overrides.font_size ELSE style.font_size,
     text_color |-> IF overrides.text_color # "none"
                    THEN overrides.text_color ELSE style.text_color,
     max_text_width_percent |->
        IF overrides.max_text_width_percent # 0
        THEN overrides.max_text_width_percent ELSE style.max_text_width_percent]

_apply_overrides_on_copy(style, overrides) ==
    [result |-> OverriddenStyle(style, overrides), received |-> style]

_apply_overrides(style, overrides) ==
    [result |-> OverriddenStyle(style, overrides),
     received |-> OverriddenStyle(style, overrides)]

\* add_text_overlay from the template lookup to the call of the engine
\* (lines 70-145) for a template that exists: the style, the probe, the font
\* size and the text that go into the directive.  probe: what
\* get_media_info gave.
add_text_overlay_layout(template, overrides, probe, text) ==
    LET style == IF overrides.present
                 THEN _apply_overrides(template, overrides).result ELSE template
        img_width == _get_video_width(probe.info)
        scaled_font_size == ScaledFontSize(style.font_size, img_width)
        max_text_width == IF overrides.present /\ overrides.max_text_width_percent # 0
                          THEN overrides.max_text_width_percent
                          ELSE style.max_text_width_percent
        wrapped == IF max_text_width # 0 /\ img_width # 0
                   THEN _wrap_text(text, scaled_font_size, img_width, max_text_width)
                   ELSE [raises |-> FALSE, text |-> text]
    IN [raises |-> probe.raises \/ wrapped.raises,
        engine_started |-> ~(probe.raises \/ wrapped.raises),
        style |-> style,
        font_size |-> scaled_font_size,
        text |-> wrapped.text]

\* The anchors with a preset in _calculate_position, and "custom".
PresetPositions ==
    {"center", "top-left", "top-right", "top-center", "bottom-left",
     "bottom-right", "bottom-center", "middle-left", "middle-right"}

\* The position fields of TextOverrideOptions: position "none" and a
\* coordinate -1 stand for None; present FALSE for overrides = None.
NoPositionOverrides ==
    [present |-> FALSE, position |-> "none", custom_x |-> -1, custom_y |-> -1]

\* _calculate_position(style, overrides): the position of the overrides wins
\* over the style's; "custom" with overrides that carry both coordinates
\* gives them; everything else is looked up in the presets with the preset
\* of "center" as default.  Nothing is raised.
_calculate_position(style_position, overrides) ==
    LET position == IF overrides.present /\ overrides.position # "none"
                    THEN overrides.position ELSE style_position
    IN IF position = "custom" /\ overrides.present
          /\ overrides.custom_x # -1 /\ overrides.custom_y # -1
       THEN [raises |-> FALSE, at |-> "custom",
             x |-> overrides.custom_x, y |-> overrides.custom_y]
       ELSE [raises |-> FALSE,
             at |-> IF position \in PresetPositions THEN position ELSE "center",
             x |-> -1, y |-> -1]

\* --------------------------------------------- trim_video (ffmpeg) ----

\* Durations are whole ticks; the times trim_video computes are given in
\* half ticks, so that trim_total / 2 is exact.
MaxDuration == 4

TrimModes == {"start", "end", "both"}

\* What get_media_info returned for the source: {} (no 'format' key), a
\* format without 'duration', or a format with the duration d.  width is
\* the 'width' of the video stream, 0 when no stream has one.
EmptyInfo == [format |-> FALSE, has_duration |-> FALSE, duration |-> 0, width |-> 0]

MediaInfos ==
    { EmptyInfo,
      [format |-> TRUE, has_duration |-> FALSE, duration |-> 0, width |-> 0] } \cup
    { [format |-> TRUE, has_duration |-> TRUE, duration |-> d, width |-> 0] :
        d \in 1..MaxDuration }

\* float(media_info['format']['duration']): a missing key raises KeyError.
ProbedDurationOrZero(media_info) == [raises |-> FALSE, value |-> media_info.duration]

ProbedDuration(media_info) ==
    IF media_info.format /\ media_info.has_duration
    THEN [raises |-> FALSE, value |-> media_info.duration]
    ELSE [raises |-> TRUE, value |-> 0]

\* start_time and end_time (half ticks) for 0 < target < original.
TrimIntervalBothUnhalved(original_duration, target_duration, trim_mode) ==
    LET trim_total == original_duration - target_duration IN
    IF trim_mode = "end"
    THEN [start_time |-> 0, end_time |-> 2 * target_duration]
    ELSE [start_time |-> 2 * trim_total, end_time |-> 2 * original_duration]

TrimInterval(original_duration, target_duration, trim_mode) ==
    LET trim_total == original_duration - target_duration IN
    CASE trim_mode = "start" ->
            [start_time |-> 2 * trim_total, end_time |-> 2 * original_duration]
      [] trim_mode = "end" ->
            [start_time |-> 0, end_time |-> 2 * target_duration]
      [] OTHER ->
            [start_time |-> trim_total,
             end_time |-> 2 * original_duration - trim_total]

NoInterval == [start_time |-> 0, end_time |-> 0]

\* trim_video(input_path, output_path, target_duration, trim_mode) on a source
\* probed as media_info, with the engine exiting with returncode.
trim_video(media_info, target_duration, trim_mode, returncode) ==
    LET probed == ProbedDuration(media_info)
        original_duration == probed.value
    IN
    IF probed.raises
    THEN [outcome |-> "raised", exc |-> "KeyError", engine_started |-> FALSE,
          trimmed |-> FALSE, duration |-> 0, interval |-> NoInterval]
    ELSE IF target_duration >= original_duration
    THEN [outcome |-> "returned", exc |-> "none", engine_started |-> FALSE,
          trimmed |-> FALSE, duration |-> original_duration, interval |-> NoInterval]
    ELSE LET interval == TrimInterval(original_duration, target_duration, trim_mode)
         IN IF returncode # "zero"
            THEN [outcome |-> "raised", exc |-> "RuntimeError", engine_started |-> TRUE,
                  trimmed |-> FALSE, duration |-> 0, interval |-> interval]
            ELSE [outcome |-> "returned", exc |-> "none", engine_started |-> TRUE,
                  trimmed |-> TRUE, duration |-> target_duration, interval |-> interval]

\* ------------------------------------------- merge_videos (ffmpeg) ----

\* A pad of the filter graph: stream `stream` of input file i ([i:v], [i:a])
\* or a labelled intermediate ([vi], [v]); i counts from 0 as in the code.
InPad(i, stream) == [of |-> "input", i |-> i, stream |-> stream]
Label(name, i) == [of |-> name, i |-> i, stream |-> "v"]

\* The filter_complex and the -map arguments merge_videos builds for
\* len(input_paths) = n: one fps/format chain per input, then the concat of
\* the normalized pads with v=1:a=0, and only [v] mapped.  The inputs are not
\* probed for audio.
merge_videos_directive(n) ==
    [normalize_filters |->
        [k \in 1..n |-> [ins |-> <<InPad(k - 1, "v")>>,
                         filter |-> "fps=30,format=yuv420p",
                         outs |-> <<Label("v", k - 1)>>]],
     concat |-> [ins |-> [k \in 1..n |-> Label("v", k - 1)],
                 filter |-> "concat", n |-> n, v |-> 1, a |-> 0,
                 outs |-> <<Label("out_v", 0)>>],
     map_args |-> <<Label("out_v", 0)>>]

\* ------------------------------------------------------------ main.py ----

\* MergeRequest.clips: Field(min_length=2, max_length=10)
MERGE_REQUEST_MAX_CLIPS == 10

\* What pydantic lets through to the /overlay/merge handler.
BoundaryValid(cfgs) ==
    /\ Len(cfgs) >= 2
    /\ Len(cfgs) <= MERGE_REQUEST_MAX_CLIPS
    /\ \A i \in DOMAIN cfgs :
         cfgs[i].url # 0 /\ cfgs[i].text.len >= 1 /\ cfgs[i].text.len <= MAX_TEXT_LEN

\* Parameters of process_merge_request (self apart) and the keywords the
\* handler passes; a keyword the signature lacks is a TypeError at the call.
process_merge_request_params == {"clip_configs", "output_path"}

merge_handler_kwargs ==
    {"clip_configs", "output_path", "first_clip_duration", "first_clip_trim_mode"}

CallBinds == merge_handler_kwargs \subseteq process_merge_request_params

\* except ValueError -> 400, except Exception -> 500 of the handler.
HandlerStatus(exc) ==
    CASE exc = "none"       -> "200"
      [] exc = "ValueError" -> "400"
      [] OTHER              -> "500"

ResponseOf(via, exc) == IF via = "handler" THEN HandlerStatus(exc) ELSE "none"

\* ------------------------------------------------------------- Init ----

\* The variables of the other specifications, at rest.
GateUnused == [permits |-> 0, pc |-> <<>>]

NoCall == [op |-> "none"]

NoHandler == [endpoint |-> "none"]

NoSessions == [sessions |-> <<>>, made |-> <<>>, threads |-> <<>>]

NoPool == [taken |-> 0, users |-> <<>>]

BoundaryAtRest ==
    /\ handler = NoHandler
    /\ rembg_service = NoSessions
    /\ database = NoPool

\* MergeRequest.first_clip_duration (0: None) and first_clip_trim_mode.
NoTrimOptions == [first_clip_duration |-> 0, first_clip_trim_mode |-> "both"]

\* The request bodies: no target, or a target of 1 .. MaxDuration + 1 ticks
\* with one of the three modes.  The first clip of a batch plays for
\* MaxDuration ticks.
TrimOptions ==
    {NoTrimOptions} \cup
    { [first_clip_duration |-> d, first_clip_trim_mode |-> m] :
        d \in 1..(MaxDuration + 1), m \in TrimModes }

InitFrame(cfgA, cfgB, pcB) ==
    /\ clip_configs = [r \in Requests |-> IF r = "A" THEN cfgA ELSE cfgB]
    /\ pc = [r \in Requests |-> IF r = "A" THEN "idle" ELSE pcB]
    /\ entry = [r \in Requests |-> "none"]
    /\ downloads = [r \in Requests |-> <<>>]
    /\ completed = [r \in Requests |-> <<>>]
    /\ downloaded_clips = [r \in Requests |-> <<>>]
    /\ downloaded_paths = [r \in Requests |-> <<>>]
    /\ overlayed_paths = [r \in Requests |-> <<>>]
    /\ apply_paths = [r \in Requests |-> <<>>]
    /\ idx = [r \in Requests |-> 0]
    /\ engine = [r \in Requests |-> NoEngine]
    /\ files = {}
    /\ overlay_calls = [r \in Requests |-> <<>>]
    /\ merge_inputs = [r \in Requests |-> <<>>]
    /\ raised = [r \in Requests |-> "none"]
    /\ message = [r \in Requests |-> NoMessage]
    /\ stage = [r \in Requests |-> "none"]
    /\ response = [r \in Requests |-> "none"]
    /\ created = [r \in Requests |-> {}]
    /\ removed = [r \in Requests |-> {}]
    /\ loop_holder = NoneReq
    /\ engine_log = [r \in Requests |-> <<>>]
    /\ merge_request = [r \in Requests |-> NoTrimOptions]
    /\ trim_calls = [r \in Requests |-> <<>>]

\* One request, any batch.
Init ==
    /\ \E cfg \in Batches : InitFrame(cfg, <<>>, "absent")
    /\ gate = GateUnused
    /\ u = NoCall
    /\ BoundaryAtRest

\* Two concurrent requests with plain batches.
InitConc ==
    /\ \E cfgA \in PlainBatches, cfgB \in PlainBatches : InitFrame(cfgA, cfgB, "idle")
    /\ gate = GateUnused
    /\ u = NoCall
    /\ BoundaryAtRest

\* ---------------------------------------------------------- actions ----

\* History of the request's file operations, from the directory before and
\* after a step.
Touch(r, fs) ==
    /\ files' = fs
    /\ created' = [created EXCEPT ![r] = @ \cup FilesOf(fs \ files, r)]
    /\ removed' = [removed EXCEPT ![r] = @ \cup FilesOf(files \ fs, r)]

\* Touch for a step that creates `made` and leaves the directory as fs (a file
\* made and removed within the step is in both histories).
TouchMade(r, made, fs) ==
    /\ files' = fs
    /\ created' = [created EXCEPT ![r] = @ \cup made]
    /\ removed' = [removed EXCEPT ![r] = @ \cup FilesOf((files \cup made) \ fs, r)]

\* process_merge_request is left by an exception: the frame's end.
Raise(r, via, exc, stg) ==
    /\ pc' = [pc EXCEPT ![r] = "failed"]
    /\ raised' = [raised EXCEPT ![r] = exc]
    /\ message' = [message EXCEPT ![r] = ErrorMessage(stg, clip_configs[r])]
    /\ stage' = [stage EXCEPT ![r] = stg]
    /\ response' = [response EXCEPT ![r] = ResponseOf(via, exc)]
    /\ loop_holder' = NoneReq

\* Steps 1 and 2 up to the await of gather: validate, then create one download
\* task per clip.
EnterPipeline(r, via) ==
    /\ entry' = [entry EXCEPT ![r] = via]
    /\ IF validate_merge_request(clip_configs[r]) = "ok"
       THEN /\ downloads' = [downloads EXCEPT ![r] = [i \in DOMAIN clip_configs[r] |-> "running"]]
            /\ pc' = [pc EXCEPT ![r] = "awaiting"]
            /\ UNCHANGED <<raised, message, stage, response, loop_holder, files, created, removed>>
       ELSE /\ Raise(r, via, "ValueError", "validation")
            /\ Touch(r, ProcessExcept(files, downloaded_paths[r], overlayed_paths[r]))
            /\ UNCHANGED downloads
    /\ UNCHANGED <<clip_configs, completed, downloaded_clips, downloaded_paths,
                   overlayed_paths, apply_paths, idx, engine, overlay_calls, merge_inputs>>

\* A caller awaits process_merge_request(clip_configs, output_path).
ServiceCall(r) ==
    /\ pc[r] = "idle"
    /\ loop_holder = NoneReq
    /\ EnterPipeline(r, "service")
    /\ UNCHANGED <<engine_log, merge_request, trim_calls, gate, u, boundary_vars>>

\* POST /overlay/merge: the handler calls process_merge_request with the
\* keywords of merge_handler_kwargs inside its try block.
HandlerCall(r) ==
    /\ pc[r] = "idle"
    /\ loop_holder = NoneReq
    /\ BoundaryValid(clip_configs[r])
    /\ \E opts \in TrimOptions : merge_request' = [merge_request EXCEPT ![r] = opts]
    /\ UNCHANGED <<engine_log, trim_calls, gate, u, boundary_vars>>
    /\ IF CallBinds
       THEN EnterPipeline(r, "handler")
       ELSE /\ entry' = [entry EXCEPT ![r] = "handler"]
            /\ Raise(r, "handler", "TypeError", "call")
            /\ UNCHANGED <<clip_configs, downloads, completed, downloaded_clips,
                           downloaded_paths, overlayed_paths, apply_paths, idx, engine,
                           files, overlay_calls, merge_inputs, created, removed>>

\* A download task ends: with its file written, or with DownloadError and no
\* file.  The task is not cancelled when the gather has already raised.
DownloadDone(r, i, ok) ==
    /\ pc[r] \notin {"idle", "absent"}
    /\ loop_holder = NoneReq
    /\ i \in DOMAIN downloads[r]
    /\ downloads[r][i] = "running"
    /\ downloads' = [downloads EXCEPT ![r][i] = IF ok THEN "ok" ELSE "failed"]
    /\ completed' = [completed EXCEPT ![r] = Append(@, i)]
    /\ Touch(r, IF ok THEN files \cup {SrcPath(r, i)} ELSE files)
    /\ UNCHANGED <<pc, entry, clip_configs, downloaded_clips, downloaded_paths,
                   overlayed_paths, apply_paths, idx, engine, overlay_calls,
                   merge_inputs, raised, message, stage, response, loop_holder>>
    /\ UNCHANGED <<engine_log, merge_request, trim_calls, gate, u, boundary_vars>>

\* gather returns: download_clips returns the results, downloaded_paths is
\* set and apply_overlays_to_clips is entered (a plain call, no await).
GatherReturn(r) ==
    /\ pc[r] = "awaiting"
    /\ loop_holder = NoneReq
    /\ GatherReturns(downloads[r])
    /\ LET urls == [i \in DOMAIN clip_configs[r] |-> clip_configs[r][i].url]
           results == GatherResults(r, urls, completed[r])
       IN /\ downloaded_clips' = [downloaded_clips EXCEPT ![r] = results]
          /\ downloaded_paths' = [downloaded_paths EXCEPT ![r] =
                                    [i \in DOMAIN results |-> results[i].path]]
    /\ apply_paths' = [apply_paths EXCEPT ![r] = <<>>]
    /\ idx' = [idx EXCEPT ![r] = 1]
    /\ pc' = [pc EXCEPT ![r] = "overlaying"]
    /\ loop_holder' = r
    /\ UNCHANGED <<entry, clip_configs, downloads, completed, overlayed_paths, engine,
                   files, overlay_calls, merge_inputs, raised, message, stage, response,
                   created, removed>>
    /\ UNCHANGED <<engine_log, merge_request, trim_calls, gate, u, boundary_vars>>

\* gather raises: download_clips re-raises, the except-block of
\* process_merge_request runs with the lists it has.
GatherRaise(r) ==
    /\ pc[r] = "awaiting"
    /\ loop_holder = NoneReq
    /\ GatherRaises(downloads[r])
    /\ Raise(r, entry[r], "Exception", "download")
    /\ Touch(r, ProcessExcept(files, downloaded_paths[r], overlayed_paths[r]))
    /\ UNCHANGED <<entry, clip_configs, downloads, completed, downloaded_clips,
                   downloaded_paths, overlayed_paths, apply_paths, idx, engine,
                   overlay_calls, merge_inputs>>
    /\ UNCHANGED <<engine_log, merge_request, trim_calls, gate, u, boundary_vars>>

\* The overlay of clip idx[r] failed inside add_text_overlay with the
\* directory as fs: the except-block of apply_overlays_to_clips, then the one
\* of process_merge_request.
OverlayFailed(r, made, fs) ==
    /\ Raise(r, entry[r], "Exception", "overlay")
    /\ TouchMade(r, made,
                 ProcessExcept(ApplyOverlaysExcept(fs, apply_paths[r]),
                               downloaded_paths[r], overlayed_paths[r]))
    /\ engine' = [engine EXCEPT ![r] = NoEngine]
    /\ UNCHANGED <<downloaded_paths, overlayed_paths, apply_paths, idx>>

\* One turn of the loop of apply_overlays_to_clips up to subprocess.run:
\* add_text_overlay is called for the pair that zip gives at idx[r]; the
\* template lookup may fail, the text file is written, the engine is started
\* (or its binary is missing, and the finally-block removes the text file).
\* An exception after NamedTemporaryFile created the text file and before the
\* inner try is entered (write, the rest of _build_drawtext_filter, _is_image,
\* _build_ffmpeg_command) passes no finally-block: the text file stays.
OverlayStart(r, how) ==
    /\ pc[r] = "overlaying"
    /\ loop_holder = r
    /\ engine[r] = NoEngine
    /\ idx[r] \in DOMAIN clip_configs[r]
    /\ LET i == idx[r]
           config == clip_configs[r][i]
           call == [input     |-> downloaded_clips[r][i],
                    output    |-> OvlPath(r, i),
                    text      |-> config.text,
                    template  |-> config.template,
                    overrides |-> ParseOverrides(config.overrides)]
       IN /\ overlay_calls' = [overlay_calls EXCEPT ![r] = Append(@, call)]
          /\ CASE how = "template_not_found" -> OverlayFailed(r, {}, files)
               [] how = "binary_missing" -> OverlayFailed(r, {TxtPath(r, i)}, files)
               [] how = "build_failed" ->
                    OverlayFailed(r, {TxtPath(r, i)}, files \cup {TxtPath(r, i)})
               [] OTHER ->
                    /\ engine' = [engine EXCEPT ![r] = [kind |-> "overlay", clip |-> i]]
                    /\ Touch(r, files \cup {TxtPath(r, i)})
                    /\ UNCHANGED <<pc, raised, message, stage, response, loop_holder,
                                   downloaded_paths, overlayed_paths, apply_paths, idx>>
    /\ UNCHANGED <<entry, clip_configs, downloads, completed, downloaded_clips,
                   merge_inputs>>
    /\ UNCHANGED <<engine_log, merge_request, trim_calls, gate, u, boundary_vars>>

\* subprocess.run returns or times out.  wrote: the engine left a file at the
\* output path (complete, or partial when it failed or was killed).  The
\* finally-block removes the text file; success needs exit status 0 and the
\* output file.  After the last clip the loop returns, overlayed_paths is set
\* and Step 4 removes the downloaded originals.
OverlayExit(r, exit, wrote) ==
    /\ pc[r] = "overlaying"
    /\ loop_holder = r
    /\ engine[r].kind = "overlay"
    /\ LET i == engine[r].clip
           made == IF wrote THEN {OvlPath(r, i)} ELSE {}
           fs0 == (files \cup made) \ {TxtPath(r, i)}
           paths == Append(apply_paths[r], OvlPath(r, i))
       IN IF EngineSuccess(exit, wrote)
          THEN /\ engine' = [engine EXCEPT ![r] = NoEngine]
               /\ apply_paths' = [apply_paths EXCEPT ![r] = paths]
               /\ idx' = [idx EXCEPT ![r] = i + 1]
               /\ IF i < Len(clip_configs[r])
                  THEN /\ TouchMade(r, made, fs0)
                       /\ UNCHANGED <<pc, overlayed_paths, downloaded_paths>>
                  ELSE /\ overlayed_paths' = [overlayed_paths EXCEPT ![r] = paths]
                       /\ TouchMade(r, made, Step4Cleanup(fs0, downloaded_paths[r]))
                       /\ downloaded_paths' = [downloaded_paths EXCEPT ![r] = <<>>]
                       /\ pc' = [pc EXCEPT ![r] = "merging"]
               /\ UNCHANGED <<raised, message, stage, response, loop_holder>>
          ELSE OverlayFailed(r, made, fs0)
    /\ UNCHANGED <<entry, clip_configs, downloads, completed, downloaded_clips,
                   overlay_calls, merge_inputs>>
    /\ engine_log' = [engine_log EXCEPT ![r] = Append(@, EngineRun("overlay", engine[r].clip, exit, wrote))]
    /\ UNCHANGED <<merge_request, trim_calls, gate, u, boundary_vars>>

\* merge_clips failed with the directory as fs: the except-block of
\* process_merge_request.
MergeFailed(r, made, fs) ==
    /\ Raise(r, entry[r], "Exception", "merge")
    /\ TouchMade(r, made, ProcessExcept(fs, downloaded_paths[r], overlayed_paths[r]))
    /\ engine' = [engine EXCEPT ![r] = NoEngine]
    /\ UNCHANGED <<overlayed_paths>>

\* Step 5 up to subprocess.run: merge_videos checks its inputs, builds the
\* command with the inputs in list order and starts the engine.
MergeStart(r, how) ==
    /\ pc[r] = "merging"
    /\ loop_holder = r
    /\ engine[r] = NoEngine
    /\ IF \/ Len(overlayed_paths[r]) < 2
          \/ \E p \in Range(overlayed_paths[r]) : p \notin files
          \/ how = "binary_missing"
       THEN /\ MergeFailed(r, {}, files)
            /\ UNCHANGED merge_inputs
       ELSE /\ merge_inputs' = [merge_inputs EXCEPT ![r] = overlayed_paths[r]]
            /\ engine' = [engine EXCEPT ![r] = [kind |-> "merge", clip |-> 0]]
            /\ UNCHANGED <<pc, raised, message, stage, response, loop_holder, files, created,
                           removed, overlayed_paths>>
    /\ UNCHANGED <<entry, clip_configs, downloads, completed, downloaded_clips,
                   downloaded_paths, apply_paths, idx, overlay_calls>>
    /\ UNCHANGED <<engine_log, merge_request, trim_calls, gate, u, boundary_vars>>

\* subprocess.run of the merge returns or times out; on success Step 6
\* removes the overlayed clips and the result is returned.
MergeExit(r, exit, wrote) ==
    /\ pc[r] = "merging"
    /\ loop_holder = r
    /\ engine[r].kind = "merge"
    /\ LET made == IF wrote THEN {OutPath(r)} ELSE {}
           fs0 == files \cup made
       IN IF EngineSuccess(exit, wrote)
          THEN /\ TouchMade(r, made, Step6Cleanup(fs0, overlayed_paths[r]))
               /\ overlayed_paths' = [overlayed_paths EXCEPT ![r] = <<>>]
               /\ engine' = [engine EXCEPT ![r] = NoEngine]
               /\ pc' = [pc EXCEPT ![r] = "done"]
               /\ response' = [response EXCEPT ![r] = ResponseOf(entry[r], "none")]
               /\ loop_holder' = NoneReq
               /\ UNCHANGED <<raised, message, stage>>
          ELSE MergeFailed(r, made, fs0)
    /\ UNCHANGED <<entry, clip_configs, downloads, completed, downloaded_clips,
                   downloaded_paths, apply_paths, idx, overlay_calls, merge_inputs>>
    /\ engine_log' = [engine_log EXCEPT ![r] = Append(@, EngineRun("merge", 0, exit, wrote))]
    /\ UNCHANGED <<merge_request, trim_calls, gate, u, boundary_vars>>

OverlayStarts == {"template_not_found", "build_failed", "binary_missing", "spawned"}
MergeStarts == {"binary_missing", "spawned"}
Exits == {"zero", "nonzero", "timeout"}

Next ==
    \E r \in Requests :
        \/ ServiceCall(r)
        \/ HandlerCall(r)
        \/ \E i \in 1..(MAX_MERGE_CLIPS + 1), ok \in BOOLEAN : DownloadDone(r, i, ok)
        \/ GatherReturn(r)
        \/ GatherRaise(r)
        \/ \E how \in OverlayStarts : OverlayStart(r, how)
        \/ \E exit \in Exits, wrote \in BOOLEAN : OverlayExit(r, exit, wrote)
        \/ \E how \in MergeStarts : MergeStart(r, how)
        \/ \E exit \in Exits, wrote \in BOOLEAN : MergeExit(r, exit, wrote)

Spec == Init /\ [][Next]_vars

SpecConc == InitConc /\ [][Next]_vars

\* ----------------------------------------------------------- claims ----

Active == { r \in Requests : pc[r] # "absent" }

NumClips(r) == Len(clip_configs[r])

\* process_merge_request itself raised (the call was bound and the body ran).
ProcessRaised(r) == pc[r] = "failed" /\ stage[r] # "call"

\* C1: whenever process_merge_request raises, no file the request created in
\* the temp directory still exists (sources, overlay outputs, the output of a
\* failed or timed-out engine run, the merged output).
C1_NoResidualFilesAfterRaise ==
    \A r \in Active : ProcessRaised(r) => FilesOf(files, r) = {}

\* C2: once process_merge_request has raised because a download failed, no
\* downloaded clip of the batch remains or later appears in the temp directory.
C2_NoClipAfterDownloadFailure ==
    \A r \in Active :
        (pc[r] = "failed" /\ stage[r] = "download")
            => \A i \in 1..NumClips(r) : SrcPath(r, i) \notin files

\* C3: when the overlay of clip k fails, no overlay is invoked for a later
\* clip, no concatenation is started, and when the error reaches the caller
\* all N downloaded sources and the overlay outputs of the clips before k
\* have been deleted.
C3_OverlayFailureAbortsAndCleans ==
    \A r \in Active :
        (pc[r] = "failed" /\ stage[r] = "overlay") =>
            LET k == idx[r] IN
            /\ Len(overlay_calls[r]) = k
            /\ merge_inputs[r] = <<>>
            /\ OutPath(r) \notin created[r]
            /\ \A i \in 1..NumClips(r) :
                 SrcPath(r, i) \notin files /\ SrcPath(r, i) \in removed[r]
            /\ \A i \in 1..(k - 1) :
                 OvlPath(r, i) \notin files /\ OvlPath(r, i) \in removed[r]

\* C3 witness: the overlay of a middle clip failed, after an earlier overlay
\* had succeeded and with a later clip not reached.
C3_Witness ==
    \E r \in Active :
        /\ pc[r] = "failed" /\ stage[r] = "overlay"
        /\ idx[r] > 1 /\ idx[r] < NumClips(r)
        /\ OvlPath(r, 1) \in created[r]

\* C4: after the concatenation step, succeeded or failed, every intermediate
\* overlay file has been deleted when the result or the error reaches the
\* caller; on success the merged output is the only file of the request left.
C4_OverlaysDeletedAfterMerge ==
    \A r \in Active :
        /\ (pc[r] = "done" \/ (pc[r] = "failed" /\ stage[r] = "merge")) =>
              \A i \in 1..NumClips(r) :
                  OvlPath(r, i) \notin files /\ OvlPath(r, i) \in removed[r]
        /\ pc[r] = "done" => FilesOf(files, r) = {OutPath(r)}

\* C4 witness: a batch of the maximum size was merged and returned.
C4_Witness ==
    \E r \in Active :
        /\ pc[r] = "done"
        /\ NumClips(r) = MAX_MERGE_CLIPS
        /\ \A i \in 1..NumClips(r) : OvlPath(r, i) \in created[r]

\* C5: a valid batch submitted through the /overlay/merge handler, for which
\* no download, overlay or concatenation fails, is answered with the merged
\* output and not with an error.
C5_HandlerRequestEndsDone ==
    \A r \in Active :
        (entry[r] = "handler" /\ response[r] # "none") =>
            \/ response[r] = "200" /\ pc[r] = "done"
            \/ stage[r] \in {"download", "overlay", "merge"}

\* C6 as stated: the source of clip i is deleted before the overlay of clip
\* i+1 starts, and the sources of two clips whose overlays have both
\* completed never exist together.
C6_SourceFreedAfterEachOverlay ==
    \A r \in Active :
        /\ engine[r].kind = "overlay" =>
              \A i \in 1..(engine[r].clip - 1) : SrcPath(r, i) \notin files
        /\ \A i, j \in 1..Len(apply_paths[r]) :
              i < j => ~(SrcPath(r, i) \in files /\ SrcPath(r, j) \in files)

\* C6 amended: the downloaded sources are deleted together, after the overlay
\* of the last clip has succeeded and before the concatenation starts; while
\* the overlays run all N sources exist.
C6_SourcesFreedAfterLastOverlay ==
    \A r \in Active :
        /\ pc[r] = "overlaying" =>
              \A i \in 1..NumClips(r) : SrcPath(r, i) \in files
        /\ (pc[r] \in {"merging", "done"} \/ (pc[r] = "failed" /\ stage[r] = "merge")) =>
              \A i \in 1..NumClips(r) :
                  SrcPath(r, i) \notin files /\ SrcPath(r, i) \in removed[r]

\* C6 witness: all overlays succeeded, the sources are gone and the
\* concatenation has not started yet.
C6_Witness ==
    \E r \in Active :
        /\ pc[r] = "merging" /\ engine[r] = NoEngine /\ merge_inputs[r] = <<>>
        /\ Len(overlayed_paths[r]) = NumClips(r)
        /\ \A i \in 1..NumClips(r) : SrcPath(r, i) \in removed[r]

\* C7: if a download of the batch fails, no overlay invocation and no
\* concatenation is ever started for the request and no merged output is
\* produced.
C7_DownloadFailureFailsBatch ==
    \A r \in Active :
        (\E i \in DOMAIN downloads[r] : downloads[r][i] = "failed") =>
            /\ pc[r] \in {"awaiting", "failed"}
            /\ overlay_calls[r] = <<>>
            /\ merge_inputs[r] = <<>>
            /\ engine[r] = NoEngine
            /\ OutPath(r) \notin created[r]

\* C7 witness: the request failed in the download stage although another
\* clip of the batch was downloaded.
C7_Witness ==
    \E r \in Active :
        /\ pc[r] = "failed" /\ stage[r] = "download"
        /\ \E i, j \in DOMAIN downloads[r] :
              downloads[r][i] = "failed" /\ downloads[r][j] = "ok"

InvalidBatch(cfgs) ==
    \/ Len(cfgs) < 2
    \/ Len(cfgs) > MAX_MERGE_CLIPS
    \/ \E i \in DOMAIN cfgs :
          cfgs[i].url = 0 \/ cfgs[i].text.len = 0 \/ cfgs[i].text.len > MAX_TEXT_LEN

\* C9: process_merge_request on a batch that is too small, too large, or has
\* a job with empty URL, empty text or text over 500 characters raises the
\* validation error before a download is started or a file created or deleted.
C9_InvalidBatchRejectedUntouched ==
    \A r \in Active :
        (entry[r] = "service" /\ InvalidBatch(clip_configs[r])) =>
            /\ pc[r] = "failed"
            /\ raised[r] = "ValueError"
            /\ downloads[r] = <<>>
            /\ created[r] = {} /\ removed[r] = {}
            /\ FilesOf(files, r) = {}

\* C9 witness: a batch of legal size was refused for a text of 501 characters.
C9_Witness ==
    \E r \in Active :
        /\ entry[r] = "service" /\ raised[r] = "ValueError"
        /\ NumClips(r) >= 2 /\ NumClips(r) <= MAX_MERGE_CLIPS
        /\ \E i \in DOMAIN clip_configs[r] : clip_configs[r][i].text.len = MAX_TEXT_LEN + 1

\* A step of request r that only the event loop can run.
LoopStep(r) ==
    \/ ServiceCall(r)
    \/ HandlerCall(r)
    \/ \E i \in 1..(MAX_MERGE_CLIPS + 1), ok \in BOOLEAN : DownloadDone(r, i, ok)
    \/ GatherReturn(r)
    \/ GatherRaise(r)

\* Request r has a step ready for the event loop.
Ready(r) ==
    \/ pc[r] = "idle"
    \/ \E i \in DOMAIN downloads[r] : downloads[r][i] = "running"
    \/ pc[r] = "awaiting"

\* C10: while the engine subprocess of one request runs, the event loop can
\* run the ready steps of the other requests; the orchestrating task does not
\* hold the loop until the subprocess exits.
C10_EngineDoesNotStallLoop ==
    \A r \in Active : engine[r] # NoEngine =>
        \A o \in Active \ {r} : Ready(o) => ENABLED LoopStep(o)

\* ------------------------------------------------- /rembg (main.py) ----

\* The variables of the merge pipeline.
pipeline_vars ==
    <<pc, entry, clip_configs, downloads, completed, downloaded_clips,
      downloaded_paths, overlayed_paths, apply_paths, idx, engine, files,
      overlay_calls, merge_inputs, raised, message, stage, response, created, removed,
      loop_holder, engine_log, merge_request, trim_calls>>

\* main.py:130  REMBG_SEMAPHORE = asyncio.Semaphore(3)
REMBG_PERMITS == 3

\* Concurrent POST /rembg requests.
NumRembgRequests == 5

RembgRequests == 1..NumRembgRequests

\* Positions of rembg_remove_background behind `async with REMBG_SEMAPHORE`.
RembgInside == {"downloading", "removing", "uploading"}

\* __aexit__ of the semaphore: release(), whatever left the block.
SemaphoreExitOnReturnOnly(permits, exc) ==
    IF exc = "none" THEN permits + 1 ELSE permits

SemaphoreExit(permits, exc) == permits + 1

\* The handler leaves the `async with` block: by return (exc "none"), by an
\* HTTPException or by any other exception (re-raised as HTTPException 500).
RembgLeave(q, exc) ==
    gate' = [permits |-> SemaphoreExit(gate.permits, exc),
             pc |-> [gate.pc EXCEPT ![q] =
                        CASE exc = "none" -> "answered_200"
                          [] exc = "HTTPException_400" -> "answered_400"
                          [] OTHER -> "answered_500"]]

InitRembg ==
    /\ InitFrame(<<>>, <<>>, "absent")
    /\ gate = [permits |-> REMBG_PERMITS, pc |-> [q \in RembgRequests |-> "idle"]]
    /\ u = NoCall
    /\ BoundaryAtRest

\* A request reaches `async with REMBG_SEMAPHORE`.
RembgArrive(q) ==
    /\ gate.pc[q] = "idle"
    /\ gate' = [gate EXCEPT !.pc[q] = "waiting"]
    /\ UNCHANGED <<pipeline_vars, u, boundary_vars>>

\* acquire() returns: a permit was free.
RembgAcquire(q) ==
    /\ gate.pc[q] = "waiting"
    /\ gate.permits > 0
    /\ gate' = [permits |-> gate.permits - 1,
                pc |-> [gate.pc EXCEPT ![q] = "downloading"]]
    /\ UNCHANGED <<pipeline_vars, u, boundary_vars>>

\* await download_from_url and validate_file_extension.
RembgDownloaded(q, how) ==
    /\ gate.pc[q] = "downloading"
    /\ CASE how = "ok" -> gate' = [gate EXCEPT !.pc[q] = "removing"]
         [] how = "bad_extension" -> RembgLeave(q, "HTTPException_400")
         [] OTHER -> RembgLeave(q, "Exception")
    /\ UNCHANGED <<pipeline_vars, u, boundary_vars>>

\* await asyncio.to_thread(remove_background): it raises, or the handler
\* returns the FileResponse, or it goes on to upload_file (wants_url).
RembgRemoved(q, how) ==
    /\ gate.pc[q] = "removing"
    /\ CASE how = "to_upload" -> gate' = [gate EXCEPT !.pc[q] = "uploading"]
         [] how = "file_response" -> RembgLeave(q, "none")
         [] OTHER -> RembgLeave(q, "Exception")
    /\ UNCHANGED <<pipeline_vars, u, boundary_vars>>

\* await upload_file: a URL (JSONResponse), no URL (HTTPException 500), or
\* an exception.
RembgUploaded(q, how) ==
    /\ gate.pc[q] = "uploading"
    /\ CASE how = "url" -> RembgLeave(q, "none")
         [] how = "no_url" -> RembgLeave(q, "HTTPException_500")
         [] OTHER -> RembgLeave(q, "Exception")
    /\ UNCHANGED <<pipeline_vars, u, boundary_vars>>

NextRembg ==
    \E q \in RembgRequests :
        \/ RembgArrive(q)
        \/ RembgAcquire(q)
        \/ \E how \in {"ok", "bad_extension", "failed"} : RembgDownloaded(q, how)
        \/ \E how \in {"to_upload", "file_response", "failed"} : RembgRemoved(q, how)
        \/ \E how \in {"url", "no_url", "failed"} : RembgUploaded(q, how)

SpecRembg == InitRembg /\ [][NextRembg]_vars

RembgPastGate == { q \in DOMAIN gate.pc : gate.pc[q] \in RembgInside }

\* C11: at most 3 /rembg requests are past the gate, and the free permits
\* plus the requests inside the gate are always 3: every exit of the handler
\* (return, HTTP error, any exception) gives its permit back.
C11_GatePermitsConserved ==
    gate # GateUnused =>
        /\ Cardinality(RembgPastGate) <= REMBG_PERMITS
        /\ gate.permits + Cardinality(RembgPastGate) = REMBG_PERMITS

\* C11 witness: the gate is full again after one request left it by an
\* HTTP error and one by another exception.
C11_Witness ==
    /\ gate # GateUnused
    /\ Cardinality(RembgPastGate) = REMBG_PERMITS
    /\ gate.permits = 0
    /\ \E q \in DOMAIN gate.pc : gate.pc[q] = "answered_400"
    /\ \E q \in DOMAIN gate.pc : gate.pc[q] = "answered_500"

\* ------------------------------------- single calls of the services ----

\* No request is in flight; u holds the call being made and what it gives.
InitUnit ==
    /\ InitFrame(<<>>, <<>>, "absent")
    /\ gate = GateUnused
    /\ u = NoCall
    /\ BoundaryAtRest

\* await ffmpeg_service.trim_video(...) on any probe, target and mode.
TrimVideoCall ==
    /\ u = NoCall
    /\ \E media_info \in MediaInfos, target_duration \in 1..(MaxDuration + 1),
          trim_mode \in TrimModes, returncode \in {"zero", "nonzero"} :
          u' = [op |-> "trim_video", media_info |-> media_info,
                target_duration |-> target_duration, trim_mode |-> trim_mode,
                out |-> trim_video(media_info, target_duration, trim_mode, returncode)]
    /\ UNCHANGED <<pipeline_vars, gate, boundary_vars>>

\* Audio presence of the clips handed to merge_videos.
MaxDirectiveClips == 3

AudioVectors == UNION { [1..n -> BOOLEAN] : n \in 2..MaxDirectiveClips }

\* merge_videos builds its directive for clips with any audio presence.
MergeDirectiveCall ==
    /\ u = NoCall
    /\ \E has_audio \in AudioVectors :
          u' = [op |-> "merge_videos", has_audio |-> has_audio,
                out |-> merge_videos_directive(Len(has_audio))]
    /\ UNCHANGED <<pipeline_vars, gate, boundary_vars>>

\* Templates: a font size at the base resolution and a wrap percentage
\* (0: none).
TemplateStyles ==
    { [font_path |-> "TEMPLATE_FONT", font_size |-> fs, text_color |-> "white",
       max_text_width_percent |-> p] : fs \in {12, 48, 200}, p \in {0, 80} }

\* Override objects with any subset of the modelled fields set.
OverrideSets ==
    {NoStyleOverrides} \cup
    { [present |-> TRUE, font_weight |-> w, font_family |-> f, font_size |-> z,
       text_color |-> c, custom_x |-> x, max_text_width_percent |-> m] :
        w \in {0, 400, 700}, f \in {"none", "bold"}, z \in {0, 24},
        c \in {"none", "red"}, x \in {0}, m \in {0, 50} }

\* What the inspector prints for a readable source: a width or none.
OverlayInfos ==
    { [format |-> TRUE, has_duration |-> TRUE, duration |-> 1, width |-> w] :
        w \in {0, 80, 540, 1080} }

\* "aa", "aaaaaa bbbbbb cccc", and a text with a double space, an empty
\* paragraph and a word longer than a line.
SampleTexts ==
    { Chars("a", 2),
      Chars("a", 6) \o <<" ">> \o Chars("b", 6) \o <<" ">> \o Chars("c", 4),
      Chars("a", 4) \o <<" ", " ">> \o Chars("b", 2) \o <<"\n", "\n">> \o
          Chars("c", 13) \o <<" ">> \o Chars("d", 2) }

\* _apply_overrides on any template and override object.
ApplyOverridesCall ==
    /\ u = NoCall
    /\ \E style \in TemplateStyles, overrides \in OverrideSets \ {NoStyleOverrides} :
          u' = [op |-> "_apply_overrides", style |-> style, overrides |-> overrides,
                out |-> _apply_overrides(style, overrides)]
    /\ UNCHANGED <<pipeline_vars, gate, boundary_vars>>

\* add_text_overlay up to the call of the engine, the inspector ending in
\* any way.
OverlayLayoutCall ==
    /\ u = NoCall
    /\ \E outcome \in InspectorOutcomes, parsed \in OverlayInfos,
          template \in TemplateStyles, overrides \in OverrideSets,
          text \in SampleTexts :
          LET probe == get_media_info(outcome, parsed) IN
          u' = [op |-> "add_text_overlay", outcome |-> outcome, parsed |-> parsed,
                template |-> template, overrides |-> overrides, text |-> text,
                probe |-> probe,
                out |-> add_text_overlay_layout(template, overrides, probe, text)]
    /\ UNCHANGED <<pipeline_vars, gate, boundary_vars>>

\* Texts made of up to MaxTokens pieces: words of 3, 6 and 11 letters, two
\* words of 5 letters with a space, a space, a line break (adjacent words
\* join into longer ones).
MaxTokens == 5

TextTokens ==
    { Chars("a", 3), Chars("b", 6), Chars("c", 11),
      Chars("d", 5) \o <<" ">> \o Chars("e", 5), <<" ">>, <<"\n">> }

RECURSIVE Flatten(_)
Flatten(pieces) ==
    IF pieces = <<>> THEN <<>> ELSE Head(pieces) \o Flatten(Tail(pieces))

TokenTexts ==
    { Flatten(ts) : ts \in UNION { [1..n -> TextTokens] : n \in 0..MaxTokens } }

\* Arguments of _wrap_text that give lines of 10 (the minimum) and of 14
\* characters.
WrapArgs ==
    { [font_size |-> 100, img_width |-> 540, max_width_percent |-> 80],
      [font_size |-> 48, img_width |-> 1080, max_width_percent |-> 36] }

\* _wrap_text on any text.
WrapTextCall ==
    /\ u = NoCall
    /\ \E text \in TokenTexts, args \in WrapArgs :
          u' = [op |-> "_wrap_text", text |-> text, args |-> args,
                max_chars |-> max_chars_per_line(args.font_size, args.img_width,
                                                 args.max_width_percent),
                out |-> _wrap_text(text, args.font_size, args.img_width,
                                   args.max_width_percent)]
    /\ UNCHANGED <<pipeline_vars, gate, boundary_vars>>

\* Override objects with any subset of the position fields set.
PositionOverrides ==
    {NoPositionOverrides} \cup
    { [present |-> TRUE, position |-> p, custom_x |-> x, custom_y |-> y] :
        p \in PresetPositions \cup {"custom", "none"}, x \in {-1, 0}, y \in {-1, 7} }

\* _calculate_position for any style position and override object.
CalculatePositionCall ==
    /\ u = NoCall
    /\ \E style_position \in PresetPositions \cup {"custom"},
          overrides \in PositionOverrides :
          u' = [op |-> "_calculate_position", style_position |-> style_position,
                overrides |-> overrides,
                out |-> _calculate_position(style_position, overrides)]
    /\ UNCHANGED <<pipeline_vars, gate, boundary_vars>>

\* ------------------------------------- APIKeyAuthMiddleware (main.py) ----

\* A URL path is the sequence of its segments: <<>> is "/", and
\* <<"templates", "name">> is "/templates/{name}".
public_paths == { <<>>, <<"health">>, <<"docs">>, <<"openapi.json">>, <<"redoc">> }

\* request.url.path.startswith("/templates")
StartsWithTemplates(path) == Len(path) >= 1 /\ path[1] = "templates"

\* The credential of a request: "" is an absent header, "valid" a key that
\* auth_service.validate_api_key accepts, "invalid" one it rejects.
Credentials == {"", "invalid", "valid"}

\* headers.get("X-API-Key") or headers.get("Authorization", "").replace("Bearer ", "")
ApiKeyOf(headers) ==
    IF headers.x_api_key # "" THEN headers.x_api_key ELSE headers.authorization

\* What the middleware answers by itself (status 401) or that it hands the
\* request to the route handler (call_next), and the user it attached.
dispatch(path, headers) ==
    IF StartsWithTemplates(path)
    THEN [status |-> 0, call_next |-> TRUE, user |-> FALSE]
    ELSE IF path \in public_paths
    THEN [status |-> 0, call_next |-> TRUE, user |-> FALSE]
    ELSE IF ApiKeyOf(headers) = ""
    THEN [status |-> 401, call_next |-> FALSE, user |-> FALSE]
    ELSE IF ApiKeyOf(headers) # "valid"
    THEN [status |-> 401, call_next |-> FALSE, user |-> FALSE]
    ELSE [status |-> 0, call_next |-> TRUE, user |-> TRUE]

\* The routes of the application that change the template store.
TemplateWrites ==
    { [method |-> "POST",   path |-> <<"templates">>],
      [method |-> "PUT",    path |-> <<"templates", "name">>],
      [method |-> "DELETE", path |-> <<"templates", "name">>],
      [method |-> "POST",   path |-> <<"templates", "name", "duplicate">>] }

Routes ==
    TemplateWrites \cup
    { [method |-> "GET",  path |-> <<>>],
      [method |-> "GET",  path |-> <<"health">>],
      [method |-> "GET",  path |-> <<"templates">>],
      [method |-> "GET",  path |-> <<"templates", "name">>],
      [method |-> "POST", path |-> <<"overlay", "merge">>],
      [method |-> "POST", path |-> <<"overlay", "url">>],
      [method |-> "POST", path |-> <<"overlay", "upload">>],
      [method |-> "POST", path |-> <<"outfit">>],
      [method |-> "POST", path |-> <<"pov">>],
      [method |-> "POST", path |-> <<"rembg">>] }

\* A request to any route, with any pair of credential headers, passes the
\* middleware.
DispatchCall ==
    /\ u = NoCall
    /\ \E route \in Routes, x_api_key \in Credentials, authorization \in Credentials :
          LET headers == [x_api_key |-> x_api_key, authorization |-> authorization]
          IN  u' = [op |-> "dispatch", route |-> route, headers |-> headers,
                    out |-> dispatch(route.path, headers)]
    /\ UNCHANGED <<pipeline_vars, gate, boundary_vars>>

\* The caller has the result; the next call can be made.
CallReturned ==
    /\ u # NoCall
    /\ u' = NoCall
    /\ UNCHANGED <<pipeline_vars, gate, boundary_vars>>

NextUnit ==
    \/ TrimVideoCall
    \/ MergeDirectiveCall
    \/ ApplyOverridesCall
    \/ OverlayLayoutCall
    \/ WrapTextCall
    \/ CalculatePositionCall
    \/ DispatchCall
    \/ CallReturned

SpecUnit == InitUnit /\ [][NextUnit]_vars

\* C12: a merge request submitted with a first-clip target duration below
\* the first clip's duration, unless it fails before the trim, has the first
\* clip and only the first clip trimmed to that duration with the requested
\* mode.
C12_FirstClipTrimmed ==
    \A r \in Active :
        (/\ entry[r] = "handler"
         /\ merge_request[r].first_clip_duration \in 1..(MaxDuration - 1)
         /\ pc[r] \in {"done", "failed"}) =>
            \/ stage[r] \in {"validation", "download", "overlay"}
            \/ trim_calls[r] = <<[clip |-> 1,
                                  target_duration |-> merge_request[r].first_clip_duration,
                                  trim_mode |-> merge_request[r].first_clip_trim_mode]>>

\* C13: trim_video on a source whose probe yields no duration raises; it
\* returns no result, trimmed or untrimmed, and does not start the engine.
C13_TrimWithoutDurationRaises ==
    (u.op = "trim_video" /\ ~(u.media_info.format /\ u.media_info.has_duration)) =>
        /\ u.out.outcome = "raised"
        /\ ~u.out.engine_started

\* C13 witness: the probe gave a format section without a duration.
C13_Witness ==
    /\ u.op = "trim_video"
    /\ u.media_info.format /\ ~u.media_info.has_duration
    /\ u.out.outcome = "raised"

\* C14: for 0 < T < D the kept interval has 0 <= start < end <= D and
\* end - start = T, with end = D in mode "start", start = 0 in mode "end" and
\* start = D - end in mode "both"; for T >= D the engine is not started and
\* the clip is reported untrimmed with duration D.  (Times in half ticks.)
C14_TrimIntervalExact ==
    (u.op = "trim_video" /\ u.media_info.format /\ u.media_info.has_duration) =>
        LET D == u.media_info.duration
            T == u.target_duration
            start == u.out.interval.start_time
            end == u.out.interval.end_time
        IN IF T < D
           THEN /\ u.out.engine_started
                /\ 0 <= start /\ start < end /\ end <= 2 * D
                /\ end - start = 2 * T
                /\ u.trim_mode = "start" => end = 2 * D
                /\ u.trim_mode = "end" => start = 0
                /\ u.trim_mode = "both" => start = 2 * D - end
                /\ u.out.outcome = "returned" =>
                      u.out.trimmed /\ u.out.duration = T
           ELSE /\ ~u.out.engine_started
                /\ u.out.outcome = "returned"
                /\ ~u.out.trimmed
                /\ u.out.duration = D

\* C14 witness: an odd amount was dropped equally from both ends.
C14_Witness ==
    /\ u.op = "trim_video" /\ u.trim_mode = "both"
    /\ u.out.outcome = "returned" /\ u.out.trimmed
    /\ (u.media_info.duration - u.target_duration) % 2 = 1
    /\ u.out.interval.start_time > 0

\* What the call that made the k-th engine run of request r reported: an
\* overlay call returned when the loop moved past its clip, the merge call
\* when the request is done; otherwise the call raised.
Reported(r, k) ==
    LET run == engine_log[r][k] IN
    IF run.kind = "overlay"
    THEN IF idx[r] > run.clip THEN "success" ELSE "error"
    ELSE IF pc[r] = "done" THEN "success" ELSE "error"

\* C16: add_text_overlay and merge_videos report success only for an engine
\* run that exited with status 0 within the timeout and left the output
\* file; a non-zero exit, a timeout and a missing output each end the call
\* (and the request) with an error; the engine is run at most once per call.
C16_SuccessOnlyOnCleanExit ==
    \A r \in Active :
        LET log == engine_log[r] IN
        /\ \A k \in DOMAIN log :
              /\ Reported(r, k) = "success" <=> (log[k].exit = "zero" /\ log[k].wrote)
              /\ Reported(r, k) = "error" =>
                    /\ k = Len(log)
                    /\ pc[r] = "failed" /\ stage[r] = log[k].kind
                    /\ engine[r] = NoEngine
              /\ \A j \in DOMAIN log :
                    (log[j].kind = log[k].kind /\ log[j].clip = log[k].clip) => j = k
        /\ engine[r] # NoEngine =>
              \A k \in DOMAIN log :
                  ~(log[k].kind = engine[r].kind /\ log[k].clip = engine[r].clip)

\* C16 witness: after successful overlays, a merge engine that exited with
\* status 0 without leaving the output file ended the request in error.
C16_Witness ==
    \E r \in Active :
        /\ pc[r] = "failed" /\ stage[r] = "merge"
        /\ Len(engine_log[r]) = NumClips(r) + 1
        /\ engine_log[r][Len(engine_log[r])].exit = "zero"
        /\ ~engine_log[r][Len(engine_log[r])].wrote

\* C17: the text file of an overlay exists only while the engine of that
\* overlay runs: it is gone when add_text_overlay has returned or raised, on
\* every exit path, a failure between its creation and the start of the
\* engine included.
C17_TextFileGoneAfterOverlay ==
    \A r \in Active : \A i \in 1..NumClips(r) :
        TxtPath(r, i) \in files => engine[r] = [kind |-> "overlay", clip |-> i]

\* C18: get_media_info never raises and gives an empty result for every
\* inspector failure; add_text_overlay then still calls the engine, with the
\* unscaled font size of the style (the template's, unless an override sets
\* one) and the text as given.
C18_ProbeFailureSkipsLayout ==
    u.op = "add_text_overlay" =>
        /\ ~u.probe.raises
        /\ u.outcome # "ok" => u.probe.info = EmptyInfo
        /\ u.probe.info = EmptyInfo =>
              /\ ~u.out.raises /\ u.out.engine_started
              /\ u.out.font_size = u.out.style.font_size
              /\ u.overrides.font_size = 0 => u.out.font_size = u.template.font_size
              /\ u.out.text = u.text

\* C18 witness: the inspector timed out on a source for which a successful
\* probe would have scaled the font and wrapped the text.
C18_Witness ==
    /\ u.op = "add_text_overlay" /\ u.outcome = "timeout"
    /\ u.out.engine_started /\ u.out.text = u.text
    /\ LET seen == add_text_overlay_layout(u.template, u.overrides,
                                           [raises |-> FALSE, info |-> u.parsed], u.text)
       IN seen.text # u.text /\ seen.font_size # u.out.font_size

\* C20: _apply_overrides leaves the template object it receives as it was.
C20_ResolveLeavesTemplate ==
    u.op = "_apply_overrides" => u.out.received = u.style

\* The download that made gather raise: the first task that failed.
FirstFailedDownload(r) ==
    LET k == CHOOSE k \in DOMAIN completed[r] :
                 /\ downloads[r][completed[r][k]] = "failed"
                 /\ \A j \in 1..(k - 1) : downloads[r][completed[r][j]] # "failed"
    IN completed[r][k]

\* C19: when the download of the k-th clip fails, the error that
\* process_merge_request surfaces names the download stage and clip k.
C19_DownloadErrorNamesClip ==
    \A r \in Active :
        (pc[r] = "failed" /\ stage[r] = "download") =>
            /\ message[r].stage = "download"
            /\ message[r].clip = FirstFailedDownload(r)

\* C21: for every width W > 0, template font size and percentage P the
\* layout step (font scaling, then _wrap_text) ends without error, with at
\* least 10 characters per line.
C21_LayoutNeverFails ==
    (/\ u.op = "add_text_overlay" /\ u.outcome = "ok" /\ u.parsed.width > 0
     /\ ~u.overrides.present /\ u.template.max_text_width_percent # 0) =>
        /\ ~u.out.raises
        /\ u.out.font_size > 0
        /\ max_chars_per_line(u.out.font_size, u.parsed.width,
                              u.template.max_text_width_percent) >= 10

\* The lines of a text, and the non-empty words of a line and of a text.
LinesOf(text) == SplitOn(text, "\n")

IsWord(w) == w # <<>>

WordsOfLine(line) == SelectSeq(SplitOn(line, " "), IsWord)

WordsOf(text) == Flatten([k \in DOMAIN LinesOf(text) |-> WordsOfLine(LinesOf(text)[k])])

IsBlank(paragraph) == \A i \in DOMAIN paragraph : paragraph[i] = " "

\* C22 as stated: no line that _wrap_text outputs has more than
\* max_chars_per_line characters.
C22_NoLineOverLimit ==
    (u.op = "_wrap_text" /\ ~u.out.raises) =>
        \A k \in DOMAIN LinesOf(u.out.text) :
            Len(LinesOf(u.out.text)[k]) <= u.max_chars

\* C22 amended: a line that _wrap_text outputs has more than
\* max_chars_per_line characters only if it is a single word (words are not
\* split).
C22_OnlySingleWordsOverLimit ==
    (u.op = "_wrap_text" /\ ~u.out.raises) =>
        \A k \in DOMAIN LinesOf(u.out.text) :
            LET line == LinesOf(u.out.text)[k] IN
            Len(line) > u.max_chars =>
                /\ \A i \in DOMAIN line : line[i] # " "
                /\ WordsOfLine(line) = <<line>>

\* C22 witness: the output has a line of several words that fills the limit
\* exactly and a line made of one word longer than the limit.
C22_Witness ==
    /\ u.op = "_wrap_text" /\ ~u.out.raises
    /\ \E k \in DOMAIN LinesOf(u.out.text) :
          /\ Len(LinesOf(u.out.text)[k]) = u.max_chars
          /\ Len(WordsOfLine(LinesOf(u.out.text)[k])) > 1
    /\ \E k \in DOMAIN LinesOf(u.out.text) : Len(LinesOf(u.out.text)[k]) > u.max_chars

\* The lines _wrap_text makes of one paragraph.
GroupOf(paragraph, max_chars) == WrapParagraphs(<<paragraph>>, <<>>, max_chars)

\* C23: the output of _wrap_text is, in input order, one non-empty group of
\* lines per paragraph of the input; the lines of a group hold the words of
\* that paragraph only, and a paragraph that is empty or blank gives exactly
\* one empty line.
C23_ParagraphsKept ==
    (u.op = "_wrap_text" /\ ~u.out.raises) =>
        LET paragraphs == LinesOf(u.text)
            groups == [k \in DOMAIN paragraphs |-> GroupOf(paragraphs[k], u.max_chars)]
        IN /\ LinesOf(u.out.text) = Flatten(groups)
           /\ \A k \in DOMAIN paragraphs :
                 /\ groups[k] # <<>>
                 /\ IsBlank(paragraphs[k]) => groups[k] = << <<>> >>
                 /\ ~IsBlank(paragraphs[k]) =>
                       /\ \A j \in DOMAIN groups[k] : groups[k][j] # <<>>
                       /\ Flatten([j \in DOMAIN groups[k] |-> WordsOfLine(groups[k][j])])
                            = WordsOfLine(paragraphs[k])

\* C23 witness: a text of three paragraphs, the middle one blank, one of the
\* others wrapped into several lines.
C23_Witness ==
    /\ u.op = "_wrap_text" /\ ~u.out.raises
    /\ Len(LinesOf(u.text)) = 3
    /\ IsBlank(LinesOf(u.text)[2])
    /\ ~IsBlank(LinesOf(u.text)[1]) /\ ~IsBlank(LinesOf(u.text)[3])
    /\ Len(LinesOf(u.out.text)) > 3

\* C24: a resolved position "custom" without both coordinates is rejected
\* with an error and rendered nowhere.
C24_CustomNeedsCoordinates ==
    u.op = "_calculate_position" =>
        LET position == IF u.overrides.present /\ u.overrides.position # "none"
                        THEN u.overrides.position ELSE u.style_position
            both == /\ u.overrides.present
                    /\ u.overrides.custom_x # -1 /\ u.overrides.custom_y # -1
        IN (position = "custom" /\ ~both) => u.out.raises

\* C30: the non-empty words of the output of _wrap_text, line by line, are
\* the non-empty words of the input in the same order.
C30_WordsKept ==
    (u.op = "_wrap_text" /\ ~u.out.raises) => WordsOf(u.out.text) = WordsOf(u.text)

\* C30 witness: a text with repeated spaces and several words was broken
\* into more lines than it had.
C30_Witness ==
    /\ u.op = "_wrap_text" /\ ~u.out.raises
    /\ \E i \in 1..(Len(u.text) - 1) : u.text[i] = " " /\ u.text[i + 1] = " "
    /\ Len(WordsOf(u.text)) >= 3
    /\ Len(LinesOf(u.out.text)) > Len(LinesOf(u.text))

\* C25: a request to create, update, delete or duplicate a template that
\* carries no valid API key never reaches the handler: the middleware
\* answers 401 and hands the request to no route, so the template store is
\* not modified.
C25_TemplateWritesNeedKey ==
    (/\ u.op = "dispatch"
     /\ u.route \in TemplateWrites
     /\ ApiKeyOf(u.headers) # "valid")
        => (u.out.status = 401 /\ ~u.out.call_next)

\* ------------------------- DatabaseService.get_connection (database) ----

\* database_service.py:33  maxconn=10
POOL_MAXCONN == 10

\* Callers that are inside `with db.get_connection() as conn:` at once.
NumDbUsers == 3

DbUsers == 1..NumDbUsers

\* The frame of one get_connection generator: conn (None or a connection),
\* what failed (error), what the context manager did and what it raised.
DbUserIdle ==
    [pc |-> "idle", conn |-> FALSE, error |-> "none", committed |-> FALSE,
     rolled_back |-> FALSE, raised |-> "none", puts |-> 0]

\* finally: if conn: self._connection_pool.putconn(conn)
PutBackOnCleanExit(conn, error) == conn /\ error = "none"

PutBack(conn, error) == conn

InitDb ==
    /\ InitFrame(<<>>, <<>>, "absent")
    /\ gate = GateUnused
    /\ u = NoCall
    /\ handler = NoHandler
    /\ rembg_service = NoSessions
    /\ database = [taken |-> 0, users |-> [w \in DbUsers |-> DbUserIdle]]

DbStep(w, taken, user) ==
    /\ database' = [taken |-> taken, users |-> [database.users EXCEPT ![w] = user]]
    /\ UNCHANGED <<pipeline_vars, gate, u, handler, rembg_service>>

\* conn = self._connection_pool.getconn(): a connection, or an exception
\* (pool exhausted, or the server cannot be reached) that leaves conn None.
DbGetconn(w, ok) ==
    LET user == database.users[w] IN
    /\ user.pc = "idle"
    /\ IF ok /\ database.taken < POOL_MAXCONN
       THEN DbStep(w, database.taken + 1, [user EXCEPT !.pc = "body", !.conn = TRUE])
       ELSE DbStep(w, database.taken, [user EXCEPT !.pc = "except", !.error = "getconn"])

\* yield conn: the body of the with-block ends normally or raises.
DbBody(w, ok) ==
    LET user == database.users[w] IN
    /\ user.pc = "body"
    /\ IF ok
       THEN DbStep(w, database.taken, [user EXCEPT !.pc = "commit"])
       ELSE DbStep(w, database.taken, [user EXCEPT !.pc = "except", !.error = "body"])

\* conn.commit()
DbCommit(w, ok) ==
    LET user == database.users[w] IN
    /\ user.pc = "commit"
    /\ IF ok
       THEN DbStep(w, database.taken, [user EXCEPT !.pc = "finally", !.committed = TRUE])
       ELSE DbStep(w, database.taken, [user EXCEPT !.pc = "except", !.error = "commit"])

\* except Exception: if conn: conn.rollback(); raise.  A rollback that
\* raises leaves the block with its own exception.
DbExcept(w, ok) ==
    LET user == database.users[w] IN
    /\ user.pc = "except"
    /\ IF user.conn /\ ~ok
       THEN DbStep(w, database.taken, [user EXCEPT !.pc = "finally", !.raised = "rollback"])
       ELSE DbStep(w, database.taken,
                   [user EXCEPT !.pc = "finally", !.rolled_back = user.conn,
                                !.raised = user.error])

\* finally: the connection goes back to the pool; the generator is done.
DbFinally(w) ==
    LET user == database.users[w] IN
    /\ user.pc = "finally"
    /\ IF PutBack(user.conn, user.error)
       THEN DbStep(w, database.taken - 1,
                   [user EXCEPT !.pc = "exited", !.puts = user.puts + 1])
       ELSE DbStep(w, database.taken, [user EXCEPT !.pc = "exited"])

NextDb ==
    \E w \in DbUsers :
        \/ \E ok \in BOOLEAN : DbGetconn(w, ok)
        \/ \E ok \in BOOLEAN : DbBody(w, ok)
        \/ \E ok \in BOOLEAN : DbCommit(w, ok)
        \/ \E ok \in BOOLEAN : DbExcept(w, ok)
        \/ DbFinally(w)

SpecDb == InitDb /\ [][NextDb]_vars

\* The connections that are out of the pool are those of the users between
\* getconn and the end of finally.
DbHolders == { w \in DOMAIN database.users :
                 database.users[w].conn /\ database.users[w].pc # "exited" }

DbExited == { w \in DOMAIN database.users : database.users[w].pc = "exited" }

\* What every exit of get_connection has in common: one putconn for a
\* connection taken and none otherwise, a commit exactly when body and
\* commit succeeded.
DbExitCommon(user) ==
    /\ user.puts = (IF user.conn THEN 1 ELSE 0)
    /\ ~user.conn => (user.raised = "getconn" /\ ~user.committed /\ ~user.rolled_back)
    /\ user.committed <=> (user.conn /\ user.error = "none")
    /\ user.committed => (user.raised = "none" /\ ~user.rolled_back)

\* C29 (as stated): every connection taken is put back exactly once on
\* every exit; the transaction is committed when the body ends normally
\* and rolled back, with the exception re-raised, otherwise; when taking a
\* connection fails nothing is put back.
C29_PutBackCommitOrRollback ==
    /\ database.taken = Cardinality(DbHolders)
    /\ \A w \in DbExited :
        LET user == database.users[w] IN
        /\ DbExitCommon(user)
        /\ (user.conn /\ user.error # "none")
              => (user.rolled_back /\ user.raised = user.error)

\* C29 (amended): as above, except that after a failed body or commit the
\* transaction is rolled back and the exception re-raised only when the
\* rollback succeeds; when conn.rollback() raises, that exception leaves
\* the context instead.  The connection is put back exactly once either way.
C29_PutBackOnceOnEveryExit ==
    /\ database.taken = Cardinality(DbHolders)
    /\ \A w \in DbExited :
        LET user == database.users[w] IN
        /\ DbExitCommon(user)
        /\ (user.conn /\ user.error # "none")
              => \/ user.rolled_back /\ user.raised = user.error
                 \/ ~user.rolled_back /\ user.raised = "rollback"

\* All exits at once: a commit, a failed body rolled back, and a failed
\* commit whose rollback failed too; every connection is back in the pool.
C29_Witness ==
    /\ database.taken = 0
    /\ \E w \in DbExited : database.users[w].committed
    /\ \E w \in DbExited :
          database.users[w].error = "body" /\ database.users[w].rolled_back
    /\ \E w \in DbExited :
          database.users[w].error = "commit" /\ database.users[w].raised = "rollback"
             /\ database.users[w].puts = 1

\* ------------------------ RembgService.get_session (rembg_service) ----

\* RembgRequest.model: the default and one other identifier.
RembgModels == {"isnet-general-use", "u2net"}

\* The worker threads of asyncio.to_thread that run remove_background: the
\* handlers that start them sit behind REMBG_SEMAPHORE.
SessionThreads == 1..REMBG_PERMITS

SessionThreadIdle == [pc |-> "idle", model |-> "none", used |-> 0]

\* sessions: the cache, 0 for a key that is absent, else the number of the
\* session object stored; made: the new_session calls that returned.
InitSessions ==
    /\ InitFrame(<<>>, <<>>, "absent")
    /\ gate = GateUnused
    /\ u = NoCall
    /\ handler = NoHandler
    /\ database = NoPool
    /\ rembg_service = [sessions |-> [m \in RembgModels |-> 0],
                        made |-> [m \in RembgModels |-> 0],
                        threads |-> [t \in SessionThreads |-> SessionThreadIdle]]

SessionStep(t, sessions, made, thread) ==
    /\ rembg_service' = [sessions |-> sessions, made |-> made,
                         threads |-> [rembg_service.threads EXCEPT ![t] = thread]]
    /\ UNCHANGED <<pipeline_vars, gate, u, handler, database>>

\* remove_background(model=...) starts in a worker thread and calls
\* get_session(model).
SessionCall(t, model) ==
    /\ rembg_service.threads[t].pc = "idle"
    /\ SessionStep(t, rembg_service.sessions, rembg_service.made,
                   [pc |-> "check", model |-> model, used |-> 0])

\* if model not in self.sessions
SessionCheck(t) ==
    LET thread == rembg_service.threads[t] IN
    /\ thread.pc = "check"
    /\ SessionStep(t, rembg_service.sessions, rembg_service.made,
                   [thread EXCEPT !.pc = IF rembg_service.sessions[thread.model] = 0
                                         THEN "load" ELSE "return"])

\* self.sessions[model] = new_session(model): the model is loaded (or the
\* load raises and get_session is left) and the new object is stored.
SessionLoad(t, ok) ==
    LET thread == rembg_service.threads[t]
        n == rembg_service.made[thread.model] + 1
    IN  /\ thread.pc = "load"
        /\ IF ok
           THEN SessionStep(t, [rembg_service.sessions EXCEPT ![thread.model] = n],
                            [rembg_service.made EXCEPT ![thread.model] = n],
                            [thread EXCEPT !.pc = "return"])
           ELSE SessionStep(t, rembg_service.sessions, rembg_service.made,
                            SessionThreadIdle)

\* return self.sessions[model]; the thread uses that session and ends.
SessionReturn(t) ==
    LET thread == rembg_service.threads[t] IN
    /\ thread.pc = "return"
    /\ SessionStep(t, rembg_service.sessions, rembg_service.made,
                   [thread EXCEPT !.pc = "idle",
                                  !.used = rembg_service.sessions[thread.model]])

NextSessions ==
    \E t \in SessionThreads :
        \/ \E model \in RembgModels : SessionCall(t, model)
        \/ SessionCheck(t)
        \/ \E ok \in BOOLEAN : SessionLoad(t, ok)
        \/ SessionReturn(t)

SpecSessions == InitSessions /\ [][NextSessions]_vars

\* C28: RembgService creates at most one session per model identifier: two
\* concurrent requests for the same model never both load it, and every
\* request for a model uses the one cached session.
C28_OneSessionPerModel ==
    /\ \A m \in DOMAIN rembg_service.sessions : rembg_service.made[m] <= 1
    /\ \A t \in DOMAIN rembg_service.threads :
          rembg_service.threads[t].used <= 1

\* --------------------------- temp files of the handlers (main.py) ----

\* One request inside merge_clips_with_overlays, create_outfit_video,
\* create_pov_video, overlay_from_upload or rembg_remove_background.  The
\* temp directory is reduced to the request's own two files, "input" (the
\* upload or the download) and "output"; input_path and output_path tell
\* whether the handler's local of that name is set.
Endpoints == {"merge", "outfit", "pov", "upload", "rembg"}

ResponseFormats == {"binary", "url"}

\* The endpoints that save an input file of their own.
SavesInput == {"upload", "rembg"}

\* storage_service.py:64-70, the parameters of StorageService.upload_file,
\* and the keywords every handler calls it with (main.py:310-316).
upload_file_params == {"file_path", "object_name", "user_id", "file_type"}

upload_file_kwargs == {"file_path", "object_name", "user_id", "file_type", "public"}

UploadBinds == upload_file_kwargs \subseteq upload_file_params

InitHandlers ==
    /\ InitFrame(<<>>, <<>>, "absent")
    /\ gate = GateUnused
    /\ u = NoCall
    /\ rembg_service = NoSessions
    /\ database = NoPool
    /\ \E e \in Endpoints, f \in ResponseFormats, enabled \in BOOLEAN :
          handler = [endpoint |-> e, response_format |-> f, enabled |-> enabled,
                     pc |-> "start", input_path |-> FALSE, output_path |-> FALSE,
                     files |-> {}, status |-> 0, background |-> {}]

HandlerStep(next) ==
    /\ handler' = next
    /\ UNCHANGED <<pipeline_vars, gate, u, rembg_service, database>>

\* The files a handler's `except Exception` branch (or the finally of
\* /rembg) removes: those whose local is set, for the handlers that clean.
ExceptCleans(h, kind) ==
    CASE h.endpoint = "merge" -> {}
      [] h.endpoint \in {"outfit", "pov"} ->
            IF kind = "http" THEN {} ELSE {"output"}
      [] h.endpoint = "upload" ->
            IF kind = "http" THEN {}
            ELSE (IF h.input_path THEN {"input"} ELSE {}) \cup
                 (IF h.output_path THEN {"output"} ELSE {})
      [] h.endpoint = "rembg" ->
            IF h.input_path /\ ~h.output_path THEN {"input"} ELSE {}

\* The status of the error response: an HTTPException passes through
\* except in /overlay/merge, whose `except Exception` catches it; a
\* ValueError is a 400 in /overlay/merge only; all else is a 500.
ExceptStatus(h, kind, code) ==
    CASE h.endpoint = "merge" -> IF kind = "value" THEN 400 ELSE 500
      [] kind = "http" -> code
      [] OTHER -> 500

\* An exception of the given kind ("http": HTTPException with that code,
\* "value": ValueError, "other") is raised inside the try block of h.
HandlerRaise(h, kind, code) ==
    [h EXCEPT !.pc = "answered",
              !.status = ExceptStatus(h, kind, code),
              !.files = h.files \ ExceptCleans(h, kind)]

\* What can happen up to the point where the output path is allocated.
InputOutcomes(e) ==
    CASE e = "upload" -> {"rejected", "too_large", "fails", "saved"}
      [] e = "rembg"  -> {"download_fails", "invalid_type", "saved"}
      [] OTHER -> {"saved"}

\* From the entry of the handler to the allocation of output_path:
\* /overlay/upload checks the upload (400), writes it to input_path (413
\* with the file removed when it is too large; an exception later, e.g. of
\* template_exists), /rembg downloads the image (exception, or 400 for a
\* file that is no image); the other three only name the output.
HandlerInput(outcome) ==
    /\ handler.pc = "start"
    /\ outcome \in InputOutcomes(handler.endpoint)
    /\ LET saved == [handler EXCEPT !.input_path = TRUE, !.files = {"input"}] IN
       HandlerStep(
         CASE outcome = "rejected" -> HandlerRaise(handler, "http", 400)
           [] outcome = "download_fails" -> HandlerRaise(handler, "other", 500)
           [] outcome = "too_large" ->
                 HandlerRaise([handler EXCEPT !.input_path = TRUE], "http", 413)
           [] outcome = "invalid_type" -> HandlerRaise(saved, "http", 400)
           [] outcome = "fails" -> HandlerRaise(saved, "other", 500)
           [] outcome = "saved" ->
                 IF handler.endpoint \in SavesInput
                 THEN [saved EXCEPT !.pc = "process", !.output_path = TRUE]
                 ELSE [handler EXCEPT !.pc = "process", !.output_path = TRUE])

\* The processing call of the handler (add_text_overlay, the outfit and
\* POV services, remove_background in a thread) writes the output, or
\* raises, with or without a partial output file.  In /overlay/merge the
\* call of process_merge_request raises.
ProcessOutcomes(e) ==
    IF e = "merge" THEN {"raises"} ELSE {"ok", "raises", "raises_partial"}

HandlerProcess(outcome) ==
    /\ handler.pc = "process"
    /\ outcome \in ProcessOutcomes(handler.endpoint)
    /\ LET written == [handler EXCEPT !.files = handler.files \cup {"output"}] IN
       HandlerStep(
         CASE outcome = "ok" -> [written EXCEPT !.pc = "usage"]
           [] outcome = "raises" -> HandlerRaise(handler, "other", 500)
           [] outcome = "raises_partial" -> HandlerRaise(written, "other", 500))

\* /overlay/merge: process_merge_request has returned and the merged output
\* is at output_path.
MergePipelineReturned ==
    /\ handler.pc = "process"
    /\ handler.endpoint = "merge"
    /\ HandlerStep([handler EXCEPT !.pc = "usage", !.files = {"output"}])

\* os.path.getsize and usage_service.track_usage.
HandlerUsage(ok) ==
    /\ handler.pc = "usage"
    /\ HandlerStep(IF ok THEN [handler EXCEPT !.pc = "respond"]
                         ELSE HandlerRaise(handler, "other", 500))

\* The files the background task of the FileResponse removes.
BackgroundCleans(e) == IF e \in SavesInput THEN {"input", "output"} ELSE {"output"}

\* The choice of the response: a URL response needs the upload; with the
\* storage disabled it is a 503 (in /rembg, the binary response); a binary
\* response is sent with its cleanup as background task.
HandlerRespond ==
    /\ handler.pc = "respond"
    /\ HandlerStep(
         IF handler.response_format = "url" /\ handler.enabled
         THEN [handler EXCEPT !.pc = "upload"]
         ELSE IF handler.response_format = "url" /\ handler.endpoint # "rembg"
         THEN HandlerRaise(handler, "http", 503)
         ELSE [handler EXCEPT !.pc = "sent", !.status = 200,
                              !.background = BackgroundCleans(handler.endpoint)])

\* await storage_service.upload_file(..., public=True): the call binds and
\* gives a URL (cleanup, JSON response) or None (HTTPException 500), or it
\* does not bind and raises TypeError.
HandlerUpload(outcome) ==
    /\ handler.pc = "upload"
    /\ HandlerStep(
         IF ~UploadBinds THEN HandlerRaise(handler, "other", 500)
         ELSE IF outcome = "none" THEN HandlerRaise(handler, "http", 500)
         ELSE [handler EXCEPT !.pc = "answered", !.status = 200,
                 !.files = handler.files \ BackgroundCleans(handler.endpoint)])

\* The background task runs after the response has been sent.
HandlerBackground ==
    /\ handler.pc = "sent"
    /\ HandlerStep([handler EXCEPT !.pc = "answered",
                                   !.files = handler.files \ handler.background,
                                   !.background = {}])

NextHandlers ==
    \/ \E outcome \in {"rejected", "too_large", "fails", "download_fails",
                       "invalid_type", "saved"} : HandlerInput(outcome)
    \/ \E outcome \in {"ok", "raises", "raises_partial"} : HandlerProcess(outcome)
    \/ MergePipelineReturned
    \/ \E ok \in BOOLEAN : HandlerUsage(ok)
    \/ HandlerRespond
    \/ \E outcome \in {"url", "none"} : HandlerUpload(outcome)
    \/ HandlerBackground

SpecHandlers == InitHandlers /\ [][NextHandlers]_vars

\* The event loop runs a handler's task until it has answered, and the
\* server runs the background task of a response it has sent.
SpecHandlersFair == SpecHandlers /\ WF_vars(NextHandlers)

C27_ErrorResponseLeavesNoFile ==
    (/\ handler.endpoint \in {"upload", "outfit", "pov", "rembg"}
     /\ handler.pc = "answered"
     /\ handler.status >= 400)
        => handler.files = {}

\* What a directive says about audio: whether the concat emits an audio
\* stream that is mapped to the output, which inputs feed their own audio
\* track into it, and for which clips a silent source is generated.
DirectiveChains(d) == Range(d.normalize_filters) \cup {d.concat}

DirectiveHasAudioOut(d) ==
    d.concat.a > 0 /\ \E k \in DOMAIN d.map_args : d.map_args[k].stream = "a"

DirectiveOwnAudio(d) ==
    { k \in DOMAIN d.normalize_filters :
        \E c \in DirectiveChains(d) : \E j \in DOMAIN c.ins :
            c.ins[j] = InPad(k - 1, "a") }

DirectiveSilent(d) ==
    { k \in DOMAIN d.normalize_filters :
        \E c \in DirectiveChains(d) :
            c.filter = "anullsrc" /\ c.outs = <<Label("a", k - 1)>> }

\* C15: the directive of merge_videos outputs audio iff some clip has audio;
\* then the clips with audio contribute their own track and exactly the
\* clips without one a synthesized silent segment; it is video-only iff no
\* clip has audio.
C15_AudioPolicy ==
    u.op = "merge_videos" =>
        LET some_audio == \E k \in DOMAIN u.has_audio : u.has_audio[k] IN
        /\ DirectiveHasAudioOut(u.out) <=> some_audio
        /\ some_audio =>
              /\ DirectiveOwnAudio(u.out) = { k \in DOMAIN u.has_audio : u.has_audio[k] }
              /\ DirectiveSilent(u.out) = { k \in DOMAIN u.has_audio : ~u.has_audio[k] }
        /\ ~some_audio => DirectiveOwnAudio(u.out) = {} /\ DirectiveSilent(u.out) = {}

====
